---- MODULE Spec2Model ----
(***************************************************************************)
(* Model of the ingest-and-fan-out pipeline of serial-sensors:             *)
(*   handle_data_recv -> [dump_raw | dump_raw_gzipped] -> decoder          *)
(*                    -> { decoder_to_buffer | dump_data }                 *)
(* The tasks talk over tokio unbounded mpsc channels.  One action is one   *)
(* pass through a task's loop body.                                        *)
(***************************************************************************)
EXTENDS Integers, Sequences, FiniteSets, TLC

VARIABLES
    command,     \* "ui" | "dump": the sub-command main() runs (main.rs:70)
    tapMode,     \* "none" | "plain" | "gzip": the raw tap main() inserts
    scenario,    \* what the device stream was built from (history)
    device,      \* bytes the serial port will still deliver
    readerPc,    \* handle_data_recv: "running" | "failed"
    idleReads,   \* outcomes seen of port reads that returned no data (history)
    chan,        \* channel name -> queue of messages in flight
    tapPc,       \* dump_raw / dump_raw_gzipped: "off" | "running" | "failed"
    tapFile,     \* bytes handed to the raw tap's writer
    tapFlushed,  \* TRUE once the raw tap has flushed its writer (history)
    buffer,      \* decoder: the accumulator
    decPc,       \* decoder: "running" | "failed"
    decLast,     \* decoder: record of the latest pass through the loop (history)
    emitted,     \* decoder: frames sent so far (history)
    slices,      \* decoder: number of slices received so far (history)
    recvNone,    \* task -> TRUE once its recv() has returned None (history)
    sendFailed,  \* task -> TRUE once a send of it has failed (history)
    bufPc,       \* decoder_to_buffer: "off" | "running"
    enqueued,    \* frames handed to SensorDataBuffer.enqueue (history)
    inner,       \* SensorDataBuffer.inner: the buffer of all frames
    by_sensor,   \* SensorDataBuffer.by_sensor: SensorId -> buffer of that sensor
    query,       \* record of the latest convert_values / clone_latest call (history)
    dumpPc,      \* dump_data: "off" | "running" | "failed"
    files,       \* dump_data: SensorId -> rows handed to that writer
    ranges,      \* dump_data: SensorId -> LinearRangeInfo
    processed,   \* dump_data: frames whose loop pass completed (history)
    dumpLast,    \* dump_data: record of the latest pass (history)
    since_the_epoch, \* dump_data: the wall-clock time sampled at the top of the loop
    stamps,      \* dump_data: host_time and time of receipt of each frame (history)
    created,     \* dump_data: names of the files created, in order (history)
    wall,        \* SystemTime::now()
    locks,       \* SensorDataBuffer: task -> the call it is in and the locks it holds
    tui,         \* Tui: the event task and the position of stop()
    clock,       \* Instant::now() as seen by an FpsCounter
    fps_buffer,  \* FpsCounter.buffer: the timestamps kept, newest first
    fps_capacity, \* FpsCounter.buffer.capacity()
    fps_code,    \* FpsCounter.fps: the time code of the average duration
    call         \* record of the latest call of a function without state (history)

vars == <<command, tapMode, scenario, device, readerPc, idleReads, chan, tapPc, tapFile,
          tapFlushed,
          buffer, decPc, decLast, emitted, slices, recvNone, sendFailed,
          bufPc, enqueued, inner, by_sensor, query, dumpPc, files, ranges, processed,
          dumpLast, since_the_epoch, stamps, created, wall, locks, tui,
          clock, fps_buffer, fps_capacity, fps_code, call>>

configVars  == <<command, tapMode, scenario>>
readerVars  == <<device, readerPc, idleReads>>
tapVars     == <<tapPc, tapFile, tapFlushed>>
decoderVars == <<buffer, decPc, decLast, emitted, slices>>
dataVars    == <<inner, by_sensor, query>>
bufferVars  == <<bufPc, enqueued, dataVars>>
dumpVars    == <<dumpPc, files, ranges, processed, dumpLast, since_the_epoch, stamps,
                 created>>
restVars    == <<wall, locks, tui>>
fpsVars     == <<clock, fps_buffer, fps_capacity, fps_code>>

(***************************************************************************)
(* Bounds of the model.                                                    *)
(***************************************************************************)
MaxGarbage  == 2   \* longest garbage prefix
MaxFrames   == 4   \* frames queued for dump_data in the dumper runs
MaxValue    == 2   \* largest raw value of a generated temperature frame
MaxEnqueue  == 3   \* frames queued for decoder_to_buffer in the buffer runs
MaxSequence == 3   \* largest sensor sequence number of a generated frame
MaxStream   == 102 \* frames of a long stream, more than a ring holds
MaxSecs     == 3   \* largest system_secs of a generated frame below the sentinel
MaxCalls    == 102 \* calls of FpsCounter.increment, more than its capacity
MaxJitter   == 3   \* calls of increment that come at any distance from the one before
MaxDelta    == 2   \* largest such distance, in units of the clock
MaxWall     == 3   \* latest wall-clock time of a dumper run
MaxRows     == 3   \* frames queued for dump_data in the runs with a wall clock
AccumulatorCap == 10  \* the 64 KiB cap, scaled to the model's streams: it is
                      \* longer than every frame encoding of WireFrames

Min(S) == CHOOSE x \in S : \A y \in S : x <= y

(***************************************************************************)
(* Frames.  A frame is a record; `kind` is the payload variant.            *)
(***************************************************************************)
DataKinds == {"clock", "acc", "mag", "temp", "gyro", "heading", "euler", "quat"}
MetaKinds == {"lranges", "ident"}
Kinds     == DataKinds \cup MetaKinds

\* sensor type id of a payload variant on the wire
TypeId(kind) ==
    CASE kind = "clock"   -> 1
      [] kind = "acc"     -> 2
      [] kind = "mag"     -> 3
      [] kind = "temp"    -> 4
      [] kind = "gyro"    -> 5
      [] kind = "heading" -> 6
      [] kind = "euler"   -> 7
      [] kind = "quat"    -> 8
      [] kind = "lranges" -> 9
      [] kind = "ident"   -> 10

KindOfTypeId(id) == CHOOSE k \in Kinds : TypeId(k) = id

ValidTypeIds == {TypeId(k) : k \in Kinds}

\* number of value components of a variant (0 where the library reports none)
NumComponents(kind) ==
    CASE kind \in {"acc", "mag", "gyro", "euler"} -> 3
      [] kind \in {"temp", "heading", "clock"}    -> 1
      [] kind = "quat"                            -> 4
      [] OTHER                                    -> 0

NoFrame == [kind |-> "none"]

DataFrame(tag, kind, seq, vals) ==
    [tag |-> tag, kind |-> kind, seq |-> seq, vals |-> vals]

\* LinearRanges for the sensor (tag, tkind)
RangesFrame(tag, tkind, seq, scale, offset) ==
    [tag |-> tag, kind |-> "lranges", seq |-> seq, tkind |-> tkind,
     info |-> [scale |-> scale, offset |-> offset]]

\* Identification of the sensor (tag, tkind); text is an array of IdentLen bytes
IdentFrame(tag, tkind, seq, code, text) ==
    [tag |-> tag, kind |-> "ident", seq |-> seq, tkind |-> tkind,
     code |-> code, text |-> text]

IdentCodes == <<"Generic", "Maker", "Product", "Revision">>

\* length of the byte array that carries the text of an Identification
\* (the model's texts are short)
IdentLen == 3

(***************************************************************************)
(* Wire format: a binary-encoded record inside a zero-delimited COBS       *)
(* envelope.                                                               *)
(***************************************************************************)
\* the record of a frame as bytes: tag, sequence, type id, payload
Body(f) ==
    <<f.tag, f.seq, TypeId(f.kind)>> \o
    ( CASE f.kind \in DataKinds -> f.vals
        [] f.kind = "lranges"  -> <<TypeId(f.tkind), f.info.scale, f.info.offset>>
        [] f.kind = "ident"    ->
             <<TypeId(f.tkind),
               (CHOOSE i \in 1..4 : IdentCodes[i] = f.code) - 1>> \o f.text )

PayloadLen(kind) ==
    CASE kind \in DataKinds -> NumComponents(kind)
      [] kind = "lranges"  -> 3
      [] kind = "ident"    -> 2 + IdentLen

\* decoding of a record; trailing bytes are left unread
BincodeDecode(d) ==
    IF Len(d) < 3 \/ d[3] \notin ValidTypeIds
    THEN [ok |-> FALSE]
    ELSE LET kind == KindOfTypeId(d[3])
             p    == SubSeq(d, 4, 3 + PayloadLen(kind))
         IN  IF Len(d) < 3 + PayloadLen(kind) THEN [ok |-> FALSE]
             ELSE IF kind \in DataKinds
                  THEN [ok |-> TRUE, frame |-> DataFrame(d[1], kind, d[2], p)]
             ELSE IF p[1] \notin ValidTypeIds THEN [ok |-> FALSE]
             ELSE IF kind = "lranges"
                  THEN [ok |-> TRUE,
                        frame |-> RangesFrame(d[1], KindOfTypeId(p[1]), d[2], p[2], p[3])]
             ELSE IF p[2] \notin 0..3 THEN [ok |-> FALSE]
             ELSE [ok |-> TRUE,
                   frame |-> IdentFrame(d[1], KindOfTypeId(p[1]), d[2],
                                        IdentCodes[p[2] + 1],
                                        SubSeq(p, 3, 2 + IdentLen))]

\* COBS: every zero of the record is replaced by the distance to the next one
RECURSIVE CobsEncode(_)
CobsEncode(p) ==
    LET zs == {i \in 1..Len(p) : p[i] = 0}
    IN  IF zs = {} THEN <<Len(p) + 1>> \o p
        ELSE LET z == Min(zs)
             IN  <<z>> \o SubSeq(p, 1, z - 1) \o CobsEncode(SubSeq(p, z + 1, Len(p)))

\* a frame on the wire, delimiter included
Encode(f) == CobsEncode(Body(f)) \o <<0>>

\* COBS decoding of the front of b, from the code byte at index i
RECURSIVE CobsDecode(_, _, _)
CobsDecode(b, i, out) ==
    IF i > Len(b) THEN [kind |-> "truncated"]
    ELSE IF b[i] = 0 THEN [kind |-> "ok", data |-> out, used |-> i]
    ELSE LET last == i + b[i] - 1
             upto == IF last < Len(b) THEN last ELSE Len(b)
         IN  IF \E j \in (i + 1)..upto : b[j] = 0 THEN [kind |-> "corrupt"]
             ELSE IF last >= Len(b) THEN [kind |-> "truncated"]
             ELSE IF b[last + 1] = 0
                  THEN [kind |-> "ok", data |-> out \o SubSeq(b, i + 1, last),
                        used |-> last + 1]
             ELSE CobsDecode(b, last + 1, out \o SubSeq(b, i + 1, last) \o <<0>>)

\* serial_sensors_proto::deserialize: one frame from the front of b
Deserialize(b) ==
    LET c == CobsDecode(b, 1, <<>>)
    IN  IF c.kind # "ok" THEN [kind |-> c.kind]
        ELSE LET r == BincodeDecode(c.data)
             IN  IF r.ok THEN [kind |-> "ok", read |-> c.used, frame |-> r.frame]
                 ELSE [kind |-> "bincode"]


(***************************************************************************)
(* Channels (tokio unbounded mpsc) and the tasks at their ends.            *)
(*   from_device : handle_data_recv -> raw tap, or decoder without a tap   *)
(*   raw         : raw tap -> decoder                                      *)
(*   frames      : decoder -> decoder_to_buffer (ui) or dump_data (dump)   *)
(* A task that has returned has dropped its senders and receivers.         *)
(***************************************************************************)
Channels == {"from_device", "raw", "frames"}
Tasks    == {"reader", "tap", "decoder", "to_buffer", "dump_data"}

ReadBufLen == 1024

DecoderIn == IF tapMode = "none" THEN "from_device" ELSE "raw"

Ended(t) ==
    CASE t = "reader"    -> readerPc = "failed"
      [] t = "tap"       -> tapPc = "failed"
      [] t = "decoder"   -> decPc = "failed"
      [] t = "to_buffer" -> FALSE
      [] t = "dump_data" -> dumpPc = "failed"

SenderOf(c) ==
    CASE c = "from_device" -> "reader"
      [] c = "raw"         -> "tap"
      [] c = "frames"      -> "decoder"

ReceiverOf(c) ==
    CASE c = "from_device" -> IF tapMode = "none" THEN "decoder" ELSE "tap"
      [] c = "raw"         -> "decoder"
      [] c = "frames"      -> IF command = "ui" THEN "to_buffer" ELSE "dump_data"

\* all senders of c are gone: recv() on the empty channel returns None
TxDropped(c) == Ended(SenderOf(c))
\* the receiver of c is gone: send() returns an error
RxDropped(c) == Ended(ReceiverOf(c))

\* AfterSend with the error of send() ignored
AfterSendIgnoresError(c) == "running"

\* `tx.send(x)?`: the task goes on after a send that worked and returns otherwise
AfterSend(c) == IF RxDropped(c) THEN "failed" ELSE "running"

\* the channels after a task has taken the head of c and sent msg on d
Forward(c, d, msg) ==
    IF RxDropped(d)
    THEN [chan EXCEPT ![c] = Tail(@)]
    ELSE [chan EXCEPT ![c] = Tail(@), ![d] = Append(@, msg)]

(***************************************************************************)
(* handle_data_recv: one port read that returned n > 0 bytes.              *)
(***************************************************************************)
\* the slice sent for a read that left the whole buffer in it
SliceOfBuffer(bytes, bytes_read) == bytes

\* Vec::from(&buf[..bytes_read]), buf holding the bytes the port delivers
SliceOf(bytes, bytes_read) == SubSeq(bytes, 1, bytes_read)

DeviceRead ==
    /\ readerPc = "running"
    /\ device # <<>>
    /\ \E n \in 1..(IF Len(device) < ReadBufLen THEN Len(device) ELSE ReadBufLen) :
          /\ device' = SubSeq(device, n + 1, Len(device))
          /\ chan' = IF RxDropped("from_device") THEN chan
                     ELSE [chan EXCEPT !["from_device"] = Append(@, SliceOf(device, n))]
    /\ readerPc' = AfterSend("from_device")
    /\ sendFailed' = [sendFailed EXCEPT !["reader"] = @ \/ RxDropped("from_device")]
    /\ UNCHANGED idleReads
    /\ UNCHANGED <<configVars, restVars, fpsVars, call, tapVars, decoderVars, bufferVars, dumpVars, recvNone>>

(***************************************************************************)
(* handle_data_recv: one port read that returned no data: 0 bytes, a       *)
(* TimedOut error or another I/O error.                                    *)
(***************************************************************************)
IdleOutcomes == {"empty", "timeout", "error"}

\* where handle_data_recv stands after a read without data: every arm of
\* the match falls through to the next pass of the loop
AfterIdleRead(outcome) == "running"

DeviceIdle ==
    /\ readerPc = "running"
    /\ \E outcome \in IdleOutcomes :
          /\ idleReads' = idleReads \cup {outcome}
          /\ readerPc' = AfterIdleRead(outcome)
    /\ UNCHANGED <<configVars, restVars, fpsVars, call, device, chan, tapVars, decoderVars,
                   bufferVars, dumpVars, recvNone, sendFailed>>

(***************************************************************************)
(* dump_raw / dump_raw_gzipped: one pass through the loop.                 *)
(***************************************************************************)
\* a writer that is handed nothing
HandedToWriterNothing(file, data) == file

\* writer.write_all(&data): the bytes handed to the writer so far
HandedToWriter(file, data) == file \o data

\* whether the tap flushes its writer before it returns an error:
\* dump_raw_gzipped does, dump_raw returns through `?` at once
FlushesOnError(mode) == mode = "gzip"

TapStep ==
    /\ tapPc = "running"
    /\ IF chan["from_device"] # <<>>
       THEN LET data == Head(chan["from_device"])
            IN  \E written \in BOOLEAN :
                  IF written
                  THEN /\ tapFile' = HandedToWriter(tapFile, data)
                       /\ chan' = Forward("from_device", "raw", data)
                       /\ tapPc' = AfterSend("raw")
                       /\ sendFailed' = [sendFailed EXCEPT !["tap"] = @ \/ RxDropped("raw")]
                       /\ tapFlushed' = (RxDropped("raw") /\ FlushesOnError(tapMode))
                       /\ UNCHANGED recvNone
                  ELSE /\ tapPc' = "failed"
                       /\ tapFlushed' = FlushesOnError(tapMode)
                       /\ chan' = [chan EXCEPT !["from_device"] = Tail(@)]
                       /\ UNCHANGED <<tapFile, sendFailed, recvNone>>
       ELSE /\ TxDropped("from_device")
            /\ recvNone' = [recvNone EXCEPT !["tap"] = TRUE]
            /\ UNCHANGED <<chan, tapPc, tapFile, tapFlushed, sendFailed>>
    /\ UNCHANGED <<configVars, restVars, fpsVars, call, readerVars, decoderVars, bufferVars, dumpVars>>

(***************************************************************************)
(* decoder: one pass through the loop.                                     *)
(***************************************************************************)
\* buffer.drain(0..read)
Drain(b, read) == SubSeq(b, read + 1, Len(b))

\* FirstNonzero that leaves the delimiter bytes in the accumulator
FirstNonzeroKeepsZeros(b) == 0

\* position of the first non-zero byte, as a count of leading bytes to drop
FirstNonzero(b) ==
    IF \E i \in 1..Len(b) : b[i] # 0
    THEN Min({i \in 1..Len(b) : b[i] # 0}) - 1
    ELSE Len(b)

\* the accumulator after a successful deserialization of `read` bytes
AfterSuccess(b, read) ==
    LET rest == Drain(b, read) IN Drain(rest, FirstNonzero(rest))

\* AfterError that clears on every error
AfterErrorClears(b, kind) == <<>>

\* AfterError that never clears
AfterErrorKeeps(b, kind) == b

\* the accumulator after a failed deserialization
AfterError(b, kind) == IF kind = "bincode" THEN <<>> ELSE b

\* Sent of a decoder that goes on deserializing while the accumulator
\* holds a complete frame
RECURSIVE SentAll(_, _, _)
SentAll(log, appended, r) ==
    IF r.kind = "ok"
    THEN SentAll(Append(log, r.frame), AfterSuccess(appended, r.read),
                 Deserialize(AfterSuccess(appended, r.read)))
    ELSE log

\* the frames sent so far after a pass whose one call of deserialize on the
\* accumulator `appended` returned Ok(r)
Sent(log, appended, r) == Append(log, r.frame)

DecoderStep ==
    /\ decPc = "running"
    /\ IF chan[DecoderIn] # <<>>
       THEN LET data     == Head(chan[DecoderIn])
                appended == buffer \o data
                r        == Deserialize(appended)
            IN  /\ slices' = slices + 1
                /\ IF r.kind = "ok"
                   THEN /\ buffer' = AfterSuccess(appended, r.read)
                        /\ chan' = Forward(DecoderIn, "frames", r.frame)
                        /\ decPc' = AfterSend("frames")
                        /\ emitted' = IF RxDropped("frames") THEN emitted
                                      ELSE Sent(emitted, appended, r)
                        /\ sendFailed' = [sendFailed EXCEPT
                                            !["decoder"] = @ \/ RxDropped("frames")]
                        /\ decLast' = [outcome |-> "ok", appended |-> appended,
                                       read |-> r.read, frame |-> r.frame]
                   ELSE /\ buffer' = AfterError(appended, r.kind)
                        /\ chan' = [chan EXCEPT ![DecoderIn] = Tail(@)]
                        /\ decLast' = [outcome |-> r.kind, appended |-> appended,
                                       read |-> 0, frame |-> NoFrame]
                        /\ UNCHANGED <<decPc, emitted, sendFailed>>
                /\ UNCHANGED recvNone
       ELSE /\ TxDropped(DecoderIn)
            /\ recvNone' = [recvNone EXCEPT !["decoder"] = TRUE]
            /\ UNCHANGED <<chan, decoderVars, sendFailed>>
    /\ UNCHANGED <<configVars, restVars, fpsVars, call, readerVars, tapVars, bufferVars, dumpVars>>

(***************************************************************************)
(* dump_data: one pass through the loop, from the frame that recv() hands  *)
(* over to the sample of the time at the top of the next pass.  The first  *)
(* column of a data row, host_time, is kept in `stamps`.                   *)
(***************************************************************************)
\* ValueType of the values a payload variant carries
ValueTypeOf(kind) ==
    CASE kind \in {"acc", "mag", "gyro", "temp", "heading"} -> "SInt16"
      [] kind \in {"euler", "quat"}                         -> "Float32"
      [] kind = "clock"                                     -> "UInt32"
      [] kind = "lranges"                                   -> "LinearRange"
      [] kind = "ident"                                     -> "Identifier"

\* SensorId::from(&frame): (sensor_tag, sensor type id, value type)
SensorIdOf(f) == <<f.tag, TypeId(f.kind), ValueTypeOf(f.kind)>>

\* frame.target(): the sensor a meta frame is about, else the frame's own id
Target(f) ==
    IF f.kind \in MetaKinds
    THEN <<f.tag, TypeId(f.tkind), ValueTypeOf(f.tkind)>>
    ELSE SensorIdOf(f)

\* LinearRangeInfo::convert
Convert(info, raw) == (raw + info.offset) * info.scale

None    == [some |-> FALSE]
Some(v) == [some |-> TRUE, v |-> v]

\* HashMap::get
Get(map, key) == IF key \in DOMAIN map THEN Some(map[key]) ELSE None

\* HashMap::insert
Insert(map, key, v) == [k \in DOMAIN map \cup {key} |-> IF k = key THEN v ELSE map[k]]

\* std::str::from_utf8 on the model's bytes: a byte above 127 stands alone
IsUtf8(text) == \A i \in DOMAIN text : text[i] < 128

RECURSIVE StripPadding(_)
StripPadding(text) ==
    IF text # <<>> /\ text[Len(text)] = 0
    THEN StripPadding(SubSeq(text, 1, Len(text) - 1))
    ELSE text

\* Identification::as_str: the text without its zero padding, if it is UTF-8
AsStr(text) == IF IsUtf8(text) THEN Some(StripPadding(text)) ELSE None

\* Option::unwrap_or
UnwrapOr(opt, default) == IF opt.some THEN opt.v ELSE default

Whitespace == {9, 10, 11, 12, 13, 32}

RECURSIVE TrimStart(_)
TrimStart(str) ==
    IF str # <<>> /\ str[1] \in Whitespace THEN TrimStart(Tail(str)) ELSE str

RECURSIVE TrimEnd(_)
TrimEnd(str) ==
    IF str # <<>> /\ str[Len(str)] \in Whitespace
    THEN TrimEnd(SubSeq(str, 1, Len(str) - 1))
    ELSE str

\* str::trim
Trim(str) == TrimEnd(TrimStart(str))

\* RangesKey with the id of the LinearRanges frame itself
RangesKeyOwnId(f) == SensorIdOf(f)

\* the key under which dump_data stores the LinearRanges of a frame
RangesKey(f) == Target(f)

value_type_code(vt) ==
    CASE vt = "SInt16"      -> "i16"
      [] vt = "Float32"     -> "f32"
      [] vt = "UInt32"      -> "u32"
      [] vt = "LinearRange" -> "lrange"
      [] vt = "Identifier"  -> "ident"

\* {:02X}
Hex2(n) == <<"00", "01", "02", "03">>[n + 1]

\* A converted column is modelled by the numbers printed in it: one when a
\* calibration is known, none when the column is left empty.
EmptyColumn == <<>>

csv_convert_push_scalar(vals, ri) ==
    IF ri.some THEN <<(<<Convert(ri.v, vals[1])>>)>> ELSE <<EmptyColumn>>

csv_convert_push_vec3(vals, ri) ==
    IF ri.some
    THEN <<(<<Convert(ri.v, vals[1])>>), (<<Convert(ri.v, vals[2])>>),
           (<<Convert(ri.v, vals[3])>>)>>
    ELSE <<EmptyColumn, EmptyColumn, EmptyColumn>>

csv_convert_push_vec4(vals, ri) ==
    IF ri.some
    THEN <<(<<Convert(ri.v, vals[1])>>), (<<Convert(ri.v, vals[2])>>),
           (<<Convert(ri.v, vals[3])>>), (<<Convert(ri.v, vals[4])>>)>>
    ELSE <<EmptyColumn, EmptyColumn, EmptyColumn, EmptyColumn>>

\* the header row of a variant, as its columns
create_header_row(f) ==
    <<"host_time", "device_time", "sensor_tag", "num_components", "value_type">> \o
    ( CASE f.kind = "clock"   -> <<"freq">>
        [] f.kind \in {"acc", "mag", "gyro", "euler"} ->
             <<"x", "y", "z", "converted_x", "converted_y", "converted_z">>
        [] f.kind = "temp"    -> <<"temp", "converted_temp">>
        [] f.kind = "heading" -> <<"heading", "converted_heading">>
        [] f.kind = "quat"    ->
             <<"a", "b", "c", "d",
               "converted_a", "converted_b", "converted_c", "converted_d">>
        [] f.kind = "lranges" -> <<"scale_raw", "offset_raw">>
        [] f.kind = "ident"   -> <<"code", "value">> )

\* the name of an IdentifierCode in the code column
ident_code(code) ==
    CASE code = "Generic"  -> "generic"
      [] code = "Maker"    -> "maker"
      [] code = "Product"  -> "product"
      [] code = "Revision" -> "revision"

\* the value column of an Identification: from_utf8(&value).unwrap_or("").trim()
ident_value(text) == Trim(IF IsUtf8(text) THEN text ELSE <<>>)

\* the data row of a frame, as its columns after the two time columns
create_data_row(target, f, ri) ==
    <<Hex2(target[1]), NumComponents(f.kind), value_type_code(target[3])>> \o
    ( CASE f.kind = "clock"   -> f.vals
        [] f.kind \in {"acc", "mag", "gyro", "euler"} ->
             f.vals \o csv_convert_push_vec3(f.vals, ri)
        [] f.kind \in {"temp", "heading"} ->
             f.vals \o csv_convert_push_scalar(f.vals, ri)
        [] f.kind = "quat"    -> f.vals \o csv_convert_push_vec4(f.vals, ri)
        [] f.kind = "lranges" -> <<f.info.scale, f.info.offset>>
        [] f.kind = "ident"   -> <<ident_code(f.code), ident_value(f.text)>> )

\* where the I/O of one pass can fail, by the state of the writers map
IoFailures(occupied) ==
    IF occupied THEN {"none", "write", "flush"}
    ELSE {"none", "create", "header", "write", "flush"}

\* Written with the header row repeated before every row
WrittenHeaderEveryRow(old, target, header, row, fail) ==
    IF target \in DOMAIN old
    THEN IF fail = "write" THEN old
         ELSE Insert(old, target, old[target] \o <<header, row>>)
    ELSE CASE fail = "create" -> old
           [] fail = "header" -> Insert(old, target, <<>>)
           [] fail = "write"  -> Insert(old, target, <<header>>)
           [] OTHER           -> Insert(old, target, <<header, row>>)

\* the rows handed to the writer of `target` by a pass that fails at `fail`
Written(old, target, header, row, fail) ==
    IF target \in DOMAIN old
    THEN IF fail = "write" THEN old
         ELSE Insert(old, target, Append(old[target], row))
    ELSE CASE fail = "create" -> old
           [] fail = "header" -> Insert(old, target, <<>>)
           [] fail = "write"  -> Insert(old, target, <<header>>)
           [] OTHER           -> Insert(old, target, <<header, row>>)

\* the writers map keyed by the SensorId a meta frame is about
FileKeyTarget(data) == Target(data)

\* the key of the writers map: the SensorId of the frame itself
FileKey(data) == SensorIdOf(data)

\* dump_data going on after a failed write as after a good one
AfterIoIgnoresError(fail) == "running"

\* where dump_data stands after the I/O of one pass: every `?` returns
AfterIo(fail) == IF fail = "none" THEN "running" ELSE "failed"

\* map_data: the short name of the variant of a frame's value
map_data(kind) ==
    CASE kind = "clock"   -> "clock"
      [] kind = "acc"     -> "acc"
      [] kind = "mag"     -> "mag"
      [] kind = "temp"    -> "temp"
      [] kind = "gyro"    -> "gyro"
      [] kind = "heading" -> "heading"
      [] kind = "euler"   -> "euler"
      [] kind = "quat"    -> "quat"
      [] kind = "lranges" -> "lranges"
      [] kind = "ident"   -> "ident"

\* a file name made of the tag alone
file_name_by_tag(target, sdt) == <<target[1]>>

\* "{tag}-{sdt}-{vt}-x{components}.csv", as the tuple of its four parts
file_name(target, sdt) ==
    <<target[1], sdt, value_type_code(target[3]),
      NumComponents(KindOfTypeId(target[2]))>>

\* the files created so far after a pass for `target` that fails at `fail`:
\* File::create is called when the writers map has no entry for the target
Created(old, occupied, target, sdt, fail) ==
    IF occupied \/ fail = "create" THEN old
    ELSE Append(old, [target |-> target, name |-> file_name(target, sdt)])

\* a dump_data that takes the time once, before the loop
SampledOnce(old, now) == old

\* `let now = SystemTime::now()` at the top of a pass of the loop
Sampled(old, now) == now

DumpStep ==
    /\ dumpPc = "running"
    /\ IF chan["frames"] # <<>>
       THEN LET data    == Head(chan["frames"])
                target  == FileKey(data)
                ranges1 == IF data.kind = "lranges"
                           THEN Insert(ranges, RangesKey(data), data.info)
                           ELSE ranges
                ri      == IF data.kind = "lranges"
                           THEN Get(ranges1, Target(data))
                           ELSE Get(ranges1, target)
                row     == create_data_row(target, data, ri)
            IN  \E fail \in IoFailures(target \in DOMAIN files) :
                  /\ ranges' = ranges1
                  /\ files' = Written(files, target, create_header_row(data), row, fail)
                  /\ dumpPc' = AfterIo(fail)
                  /\ processed' = IF fail = "none" THEN Append(processed, data)
                                  ELSE processed
                  /\ dumpLast' = [frame |-> data, target |-> target, row |-> row,
                                  fail |-> fail]
                  /\ created' = Created(created, target \in DOMAIN files, target,
                                        map_data(data.kind), fail)
                  /\ stamps' = Append(stamps, [host_time |-> since_the_epoch,
                                               received |-> wall])
                  /\ since_the_epoch' = IF AfterIo(fail) = "running"
                                        THEN Sampled(since_the_epoch, wall)
                                        ELSE since_the_epoch
                  /\ chan' = [chan EXCEPT !["frames"] = Tail(@)]
                  /\ UNCHANGED recvNone
       ELSE /\ TxDropped("frames")
            /\ recvNone' = [recvNone EXCEPT !["dump_data"] = TRUE]
            /\ since_the_epoch' = Sampled(since_the_epoch, wall)
            /\ UNCHANGED <<chan, dumpPc, files, ranges, processed, dumpLast, stamps,
                           created>>
    /\ UNCHANGED <<configVars, restVars, fpsVars, call, readerVars, tapVars, decoderVars, bufferVars,
                   sendFailed>>

(***************************************************************************)
(* SensorDataBuffer: a buffer of all frames and one buffer per sensor.     *)
(***************************************************************************)
Capacity == 100

\* frame.is_meta()
IsMeta(frame) == frame.kind \in MetaKinds

\* InnerSensorDataBuffer::default(); `marks` counts the calls of fps.mark()
InnerDefault ==
    [sensor_specific |-> TRUE, maker |-> <<>>, product |-> <<>>,
     capacity |-> Capacity, data |-> <<>>, len |-> 0, marks |-> 0,
     sequence |-> 0, num_skipped |-> 0, calibration |-> None]

\* InnerSensorDataBuffer::new
InnerNew(sensor_specific) == [InnerDefault EXCEPT !.sensor_specific = sensor_specific]

\* a sensor's buffer that takes every frame into its ring
StoresFrameAlways(b, frame) == TRUE

\* whether a buffer takes the frame into its ring
StoresFrame(b, frame) == ~(b.sensor_specific /\ IsMeta(frame))

\* a calibration that is kept once it is set
SetCalibrationOnce(b, info) ==
    IF b.calibration.some THEN b ELSE [b EXCEPT !.calibration = Some(info)]

SetCalibration(b, info) == [b EXCEPT !.calibration = Some(info)]

\* the name an Identification frame leaves in maker or product
NameOf(text) == Trim(UnwrapOr(AsStr(text), <<>>))

\* what a meta frame does to a sensor's buffer
ApplyMeta(b, frame) ==
    CASE frame.kind = "lranges" -> SetCalibration(b, frame.info)
      [] frame.kind = "ident" ->
            ( CASE frame.code = "Maker"   -> [b EXCEPT !.maker = NameOf(frame.text)]
                [] frame.code = "Product" -> [b EXCEPT !.product = NameOf(frame.text)]
                [] OTHER                  -> b )

\* u32::MAX, stood for by the largest integer the model checker holds
U32Max == 2147483647
U16Max == 65535

\* `previous + 1` on u32 where the build wraps on overflow
AddOne(previous) == IF previous = U32Max THEN 0 ELSE previous + 1

\* whether `previous + 1` panics: it does on overflow in a build with
\* overflow checks, the default of the dev profile
AddPanics(previous, overflow_checks) == overflow_checks /\ previous = U32Max

\* a sequence number that is neither the previous one nor its successor
IsSkip(previous, sequence) ==
    sequence # AddOne(previous) /\ sequence # previous

\* VecDeque::truncate that keeps everything
TruncateNever(data, max_len) == data

\* VecDeque::truncate
Truncate(data, max_len) ==
    IF Len(data) > max_len THEN SubSeq(data, 1, max_len) ELSE data

\* InnerSensorDataBuffer::enqueue
InnerEnqueue(b, frame) ==
    IF ~StoresFrame(b, frame)
    THEN ApplyMeta(b, frame)
    ELSE LET previous == b.sequence
             data     == Truncate(<<frame>> \o b.data, b.capacity)
         IN  [b EXCEPT !.sequence = frame.seq,
                       !.num_skipped = IF IsSkip(previous, frame.seq)
                                       THEN @ + 1 ELSE @,
                       !.data = data,
                       !.len = Len(data),
                       !.marks = @ + 1]

\* a buffer that takes the board for a sensor
IsBoardNever(sensor_id) == FALSE

\* the board itself, which is not a sensor
IsBoard(sensor_id) == sensor_id[1] = 0

\* EnqueueBySensor where only a data frame creates the entry of its sensor
EnqueueBySensorDataOnly(map, frame) ==
    LET sensor_id == Target(frame)
    IN  IF IsBoard(sensor_id) \/ (sensor_id \notin DOMAIN map /\ IsMeta(frame)) THEN map
        ELSE Insert(map, sensor_id,
                    InnerEnqueue(IF sensor_id \in DOMAIN map THEN map[sensor_id]
                                 ELSE InnerDefault, frame))

\* EnqueueBySensor where a meta frame reaches every known sensor of its tag
EnqueueBySensorSameTag(map, frame) ==
    LET sensor_id == Target(frame)
        entered   == IF IsBoard(sensor_id) THEN map
                     ELSE Insert(map, sensor_id,
                                 InnerEnqueue(IF sensor_id \in DOMAIN map
                                              THEN map[sensor_id]
                                              ELSE InnerDefault, frame))
    IN  [k \in DOMAIN entered |->
            IF IsMeta(frame) /\ k[1] = sensor_id[1] /\ k # sensor_id
            THEN ApplyMeta(entered[k], frame) ELSE entered[k]]

\* SensorDataBuffer::enqueue, the map of the sensors' buffers
EnqueueBySensor(map, frame) ==
    LET sensor_id == Target(frame)
    IN  IF IsBoard(sensor_id) THEN map
        ELSE Insert(map, sensor_id,
                    InnerEnqueue(IF sensor_id \in DOMAIN map THEN map[sensor_id]
                                 ELSE InnerDefault, frame))

\* InnerSensorDataBuffer::clone_latest: the frames appended to the target
CloneLatestOf(b, count) ==
    LET length == IF count < Len(b.data) THEN count ELSE Len(b.data)
    IN  SubSeq(b.data, 1, length)

\* InnerSensorDataBuffer::get_latest
get_latest(b) == IF b.data # <<>> THEN Some(b.data[1]) ELSE None

\* the queries of SensorDataBuffer that only read
len == inner.len
capacity == inner.capacity
num_sensors == Cardinality(DOMAIN by_sensor)
get_sensors == DOMAIN by_sensor
get_latest_by_sensor(id) ==
    IF id \in DOMAIN by_sensor THEN get_latest(by_sensor[id]) ELSE None
get_skipped_by_sensor(id) ==
    IF id \in DOMAIN by_sensor THEN by_sensor[id].num_skipped ELSE 0
get_sensor_name(id) ==
    IF id \in DOMAIN by_sensor THEN by_sensor[id].product ELSE <<>>

\* convert_values with a result that ignores the calibration
ConvertedNever(id, values) == [values |-> values, ret |-> FALSE]

\* convert_values: the values afterwards and the returned flag
Converted(id, values) ==
    IF id \in DOMAIN by_sensor /\ by_sensor[id].calibration.some
    THEN [values |-> [i \in DOMAIN values |->
                         Convert(by_sensor[id].calibration.v, values[i])],
          ret |-> TRUE]
    ELSE [values |-> values, ret |-> FALSE]

NoQuery == [op |-> "none"]

\* the SensorIds and values the user interface asks about
QueryIds == {<<1, TypeId("temp"), "SInt16">>, <<1, TypeId("acc"), "SInt16">>,
             <<3, TypeId("gyro"), "SInt16">>}
QueryValues == {<<1>>, <<2, 0, 1>>}

ConvertValues ==
    /\ bufPc = "running"
    /\ \E id \in QueryIds, values \in QueryValues :
          query' = [op |-> "convert_values", id |-> id, values |-> values,
                    out |-> Converted(id, values).values,
                    ret |-> Converted(id, values).ret]
    /\ UNCHANGED <<configVars, restVars, fpsVars, call, readerVars, chan, tapVars, decoderVars, recvNone,
                   sendFailed, bufPc, enqueued, inner, by_sensor, dumpVars>>

\* the counts and targets the user interface calls clone_latest with
CloneCounts == {0, 1, Capacity - 1, Capacity, Capacity + 1}
CloneTargets == {<<>>, <<DataFrame(2, "heading", 0, <<42>>)>>}

CloneLatest ==
    /\ bufPc = "running"
    /\ \E count \in CloneCounts, target \in CloneTargets :
          LET cloned == CloneLatestOf(inner, count)
          IN  query' = [op |-> "clone_latest", count |-> count, target |-> target,
                        out |-> target \o cloned, ret |-> Len(cloned)]
    /\ UNCHANGED <<configVars, restVars, fpsVars, call, readerVars, chan, tapVars, decoderVars, recvNone,
                   sendFailed, bufPc, enqueued, inner, by_sensor, dumpVars>>

(***************************************************************************)
(* decoder_to_buffer: one pass through the loop.                           *)
(***************************************************************************)
BufferStep ==
    /\ bufPc = "running"
    /\ IF chan["frames"] # <<>>
       THEN LET data == Head(chan["frames"])
            IN  /\ inner' = InnerEnqueue(inner, data)
                /\ by_sensor' = EnqueueBySensor(by_sensor, data)
                /\ enqueued' = Append(enqueued, data)
                /\ chan' = [chan EXCEPT !["frames"] = Tail(@)]
                /\ UNCHANGED recvNone
       ELSE /\ TxDropped("frames")
            /\ recvNone' = [recvNone EXCEPT !["to_buffer"] = TRUE]
            /\ UNCHANGED <<chan, enqueued, inner, by_sensor>>
    /\ UNCHANGED <<configVars, restVars, fpsVars, call, readerVars, tapVars, decoderVars, bufPc, query,
                   dumpVars, sendFailed>>

(***************************************************************************)
(* decode_device_time: the device_time column of a data row.  The time is  *)
(* counted in microseconds, the unit of the smallest term.                 *)
(***************************************************************************)
decode_device_time(system_secs, system_millis, system_nanos) ==
    IF system_secs # U32Max
    THEN system_secs * 1000000
           + (IF system_millis # U16Max THEN system_millis * 1000 ELSE 0)
           + (IF system_nanos # U16Max THEN system_nanos ELSE 0)
    ELSE 0

NoCall == [fn |-> "none"]

(***************************************************************************)
(* FpsCounter: timestamps of the calls of increment and the time code of   *)
(* their average distance.  A Duration is [secs, nanos].  The two 32-bit   *)
(* halves of the 64-bit time code are scaled to 15 bits each, and the      *)
(* second to 1000 units of the clock, so that a code fits the integers of  *)
(* the model checker.                                                      *)
(***************************************************************************)
FpsCapacity == 100
CodeHalf    == 32768
NanosPerSec == 1000

\* Duration::new: nanoseconds beyond a second carry over
DurationNew(secs, nanos) ==
    [secs |-> secs + nanos \div NanosPerSec, nanos |-> nanos % NanosPerSec]

\* a Duration from a number of clock units
DurationOf(units) == DurationNew(0, units)

\* encode that lets the seconds run over into the bits above
encode_unsaturated(duration) ==
    duration.secs * CodeHalf + (duration.nanos % CodeHalf)

\* FpsCounter::encode: the seconds, saturated, above the nanoseconds
encode(duration) ==
    LET seconds == Min({duration.secs, CodeHalf - 1})
    IN  seconds * CodeHalf + (duration.nanos % CodeHalf)

\* FpsCounter::decode
decode(code) ==
    DurationNew((code \div CodeHalf) % CodeHalf, code % CodeHalf)

\* Instant::duration_since of tokio: zero when `earlier` is the later one
duration_since(self, earlier) == IF self >= earlier THEN self - earlier ELSE 0

\* the sum over the pairs (first, second) of neighbours of buf, front to
\* back, of second.duration_since(first)
RECURSIVE total_duration(_)
total_duration(buf) ==
    IF Len(buf) < 2 THEN 0
    ELSE duration_since(buf[2], buf[1]) + total_duration(Tail(buf))

\* VecDeque::push_front on a full buffer doubles the capacity
GrownFor(cap, length) == IF length > cap THEN 2 * cap ELSE cap

\* FpsCounter::fps
fps == decode(fps_code)

\* FpsCounter::increment at the time clock + delta
Increment ==
    /\ Len(fps_buffer) < MaxCalls
    /\ \E delta \in 0..MaxDelta :
          /\ Len(fps_buffer) >= MaxJitter => delta = 1
          /\ LET now    == clock + delta
                 pushed == <<now>> \o fps_buffer
                 cap    == GrownFor(fps_capacity, Len(pushed))
                 buf    == Truncate(pushed, cap)
                 count  == Len(buf) - 1
             IN  /\ clock' = now
                 /\ fps_capacity' = cap
                 /\ fps_buffer' = buf
                 /\ fps_code' = IF Len(buf) < 2 THEN fps_code
                                ELSE encode(DurationOf(total_duration(buf) \div count))
    /\ UNCHANGED <<configVars, restVars, readerVars, chan, tapVars, decoderVars, recvNone,
                   sendFailed, bufferVars, dumpVars, call>>

\* InnerSensorDataBuffer::enqueue of a data frame on a sensor's buffer whose
\* last sequence number is `previous`, in a build with or without overflow
\* checks
EnqueueCall ==
    /\ \E previous \in {0, 1, U32Max - 1, U32Max}, sequence \in {0, 1, 2, U32Max},
          overflow_checks \in BOOLEAN :
          LET b     == [InnerDefault EXCEPT !.sequence = previous]
              frame == DataFrame(1, "temp", sequence, <<1>>)
          IN  call' = [fn |-> "enqueue", previous |-> previous, sequence |-> sequence,
                       overflow_checks |-> overflow_checks,
                       panicked |-> AddPanics(previous, overflow_checks),
                       skipped |-> InnerEnqueue(b, frame).num_skipped,
                       stored |-> InnerEnqueue(b, frame).len]
    /\ UNCHANGED <<configVars, restVars, readerVars, chan, tapVars, decoderVars, recvNone,
                   sendFailed, bufferVars, dumpVars, fpsVars>>

\* the Durations encode is called with
DurationSecs  == {0, 1, CodeHalf - 2, CodeHalf - 1, CodeHalf, CodeHalf + MaxSecs}
DurationNanos == {0, 1, NanosPerSec - 1}

EncodeDecode ==
    /\ \E secs \in DurationSecs, nanos \in DurationNanos :
          LET duration == [secs |-> secs, nanos |-> nanos]
          IN  call' = [fn |-> "encode", duration |-> duration,
                       code |-> encode(duration),
                       decoded |-> decode(encode(duration))]
    /\ UNCHANGED <<configVars, restVars, readerVars, chan, tapVars, decoderVars, recvNone,
                   sendFailed, bufferVars, dumpVars, fpsVars>>

\* the time fields of the frames a device sends
SecsValues   == 0..MaxSecs \cup {U32Max}
MillisValues == {0, 1, 999, U16Max - 1, U16Max}
NanosValues  == {0, 1, 999, U16Max - 1, U16Max}

DecodeDeviceTime ==
    /\ \E secs \in SecsValues, millis \in MillisValues, nanos \in NanosValues :
          call' = [fn |-> "decode_device_time",
                   system_secs |-> secs, system_millis |-> millis,
                   system_nanos |-> nanos,
                   out |-> decode_device_time(secs, millis, nanos)]
    /\ UNCHANGED <<configVars, restVars, readerVars, chan, tapVars, decoderVars, recvNone,
                   sendFailed, bufferVars, dumpVars, fpsVars>>

(***************************************************************************)
(* The two locks of a SensorDataBuffer.  One task calls enqueue, the other *)
(* tasks call the queries.  A guard is held from the lock call to the end  *)
(* of the function that took it.                                           *)
(***************************************************************************)
LockTasks == {"enqueuer", "query1", "query2"}

NotCalling == [op |-> "none", held |-> 0]

GlobalQueries == {"len", "capacity", "clone_latest", "average_duration"}

SensorQueries ==
    {"num_sensors", "get_sensors", "get_latest_by_sensor",
     "get_average_duration_by_sensor", "get_skipped_by_sensor", "get_sensor_name",
     "convert_values"}

\* the calls a task makes: enqueue of a frame of the board (tag 0) returns
\* before the map of the sensors is touched
OpsOf(t) ==
    IF t = "enqueuer" THEN {"enqueue", "enqueue_board"}
    ELSE GlobalQueries \cup SensorQueries

Guard(lock, mode) == [lock |-> lock, mode |-> mode]

\* LocksOf with a query that reads the global buffer under the map's lock
LocksOfNested(op) ==
    CASE op = "enqueue"         -> <<Guard("inner", "write"), Guard("by_sensor", "write")>>
      [] op = "enqueue_board"   -> <<Guard("inner", "write")>>
      [] op = "get_sensors"     -> <<Guard("by_sensor", "read"), Guard("inner", "read")>>
      [] op \in GlobalQueries   -> <<Guard("inner", "read")>>
      [] op \in SensorQueries   -> <<Guard("by_sensor", "read")>>

\* the locks a call takes, in the order it takes them
LocksOf(op) ==
    CASE op = "enqueue"         -> <<Guard("inner", "write"), Guard("by_sensor", "write")>>
      [] op = "enqueue_board"   -> <<Guard("inner", "write")>>
      [] op \in GlobalQueries   -> <<Guard("inner", "read")>>
      [] op \in SensorQueries   -> <<Guard("by_sensor", "read")>>

\* the guards task t holds
HeldBy(t) == {LocksOf(locks[t].op)[i] : i \in 1..locks[t].held}

Holds(t, lock) == \E g \in HeldBy(t) : g.lock = lock

\* the guard task t asks for next, if any
Wanted(t) ==
    IF locks[t].op # "none" /\ locks[t].held < Len(LocksOf(locks[t].op))
    THEN Some(LocksOf(locks[t].op)[locks[t].held + 1])
    ELSE None

\* RwLock: any number of readers or one writer
Available(g, t) ==
    \A u \in LockTasks \ {t} :
        \A h \in HeldBy(u) :
            h.lock = g.lock => (g.mode = "read" /\ h.mode = "read")

\* task t enters a call
LockCall(t) ==
    /\ locks[t].op = "none"
    /\ \E op \in OpsOf(t) : locks' = [locks EXCEPT ![t] = [op |-> op, held |-> 0]]

\* task t is given the lock it waits for
LockAcquire(t) ==
    /\ Wanted(t).some
    /\ Available(Wanted(t).v, t)
    /\ locks' = [locks EXCEPT ![t].held = @ + 1]

\* task t returns from its call and drops its guards
LockReturn(t) ==
    /\ locks[t].op # "none"
    /\ ~Wanted(t).some
    /\ locks' = [locks EXCEPT ![t] = NotCalling]

LockStep ==
    /\ \E t \in LockTasks : LockCall(t) \/ LockAcquire(t) \/ LockReturn(t)
    /\ UNCHANGED <<configVars, wall, tui, fpsVars, call, readerVars, chan, tapVars,
                   decoderVars, recvNone, sendFailed, bufferVars, dumpVars>>

(***************************************************************************)
(* Tui::stop and the event task it waits for.                              *)
(***************************************************************************)
\* the Tui after start(): the event task runs, stop() has not been called
TuiStarted ==
    [pc |-> "started", counter |-> 0, finished |-> FALSE, cancelled |-> FALSE,
     aborts |-> 0, gave_up |-> FALSE]

\* ShouldAbort of a stop() that only waits
ShouldAbortNever(counter) == FALSE

\* `if counter > 50 { self.task.abort(); }`
ShouldAbort(counter) == counter > 50

\* `if counter > 100 { ...; break; }`
GivesUp(counter) == counter > 100

\* stop() is called: self.cancel(), counter = 0
TuiStop ==
    /\ tui.pc = "started"
    /\ tui' = [tui EXCEPT !.pc = "polling", !.cancelled = TRUE, !.counter = 0]

\* one pass of `while !self.task.is_finished()`
TuiPoll ==
    /\ tui.pc = "polling"
    /\ IF tui.finished
       THEN tui' = [tui EXCEPT !.pc = "returned"]
       ELSE LET counter == tui.counter + 1
            IN  tui' = [tui EXCEPT
                          !.counter = counter,
                          !.aborts = IF ShouldAbort(counter) THEN @ + 1 ELSE @,
                          !.gave_up = GivesUp(counter),
                          !.pc = IF GivesUp(counter) THEN "returned" ELSE "polling"]

\* the event task ends, because it saw the cancellation, because it was
\* aborted, or because it panicked; it may also never end
TuiTaskFinishes ==
    /\ ~tui.finished
    /\ tui' = [tui EXCEPT !.finished = TRUE]

TuiStep ==
    /\ TuiStop \/ TuiPoll \/ TuiTaskFinishes
    /\ UNCHANGED <<configVars, wall, locks, fpsVars, call, readerVars, chan, tapVars,
                   decoderVars, recvNone, sendFailed, bufferVars, dumpVars>>

\* the wall clock moves on
Tick ==
    /\ wall < MaxWall
    /\ wall' = wall + 1
    /\ UNCHANGED <<configVars, locks, tui, fpsVars, call, readerVars, chan, tapVars,
                   decoderVars, recvNone, sendFailed, bufferVars, dumpVars>>

(***************************************************************************)
(* Initial states.                                                         *)
(***************************************************************************)
EmptyMap == [k \in {} |-> <<>>]

NoPass == [outcome |-> "none", appended |-> <<>>, read |-> 0, frame |-> NoFrame]

NoDump == [frame |-> NoFrame, target |-> <<>>, row |-> <<>>, fail |-> "none"]

\* the state main() leaves behind once every task is spawned
\* main() that starts both consumers of the frames
SpawnedBoth(cmd, task) == TRUE

\* the consumer of the frames main() starts for the sub-command
Spawned(cmd, task) == task = (IF cmd = "ui" THEN "to_buffer" ELSE "dump_data")

Started(cmd, tap, scn, bytes, queued) ==
    /\ command = cmd
    /\ tapMode = tap
    /\ scenario = scn
    /\ device = bytes
    /\ readerPc = "running"
    /\ idleReads = {}
    /\ chan = [c \in Channels |-> IF c = "frames" THEN queued ELSE <<>>]
    /\ tapPc = IF tap = "none" THEN "off" ELSE "running"
    /\ tapFile = <<>>
    /\ tapFlushed = FALSE
    /\ buffer = <<>>
    /\ decPc = "running"
    /\ decLast = NoPass
    /\ emitted = <<>>
    /\ slices = 0
    /\ recvNone = [t \in Tasks |-> FALSE]
    /\ sendFailed = [t \in Tasks |-> FALSE]
    /\ bufPc = IF Spawned(cmd, "to_buffer") THEN "running" ELSE "off"
    /\ enqueued = <<>>
    /\ inner = InnerNew(FALSE)
    /\ by_sensor = EmptyMap
    /\ query = NoQuery
    /\ dumpPc = IF Spawned(cmd, "dump_data") THEN "running" ELSE "off"
    /\ files = EmptyMap
    /\ ranges = EmptyMap
    /\ processed = <<>>
    /\ dumpLast = NoDump
    /\ since_the_epoch = 0
    /\ stamps = <<>>
    /\ created = <<>>
    /\ wall = 0
    /\ locks = [t \in LockTasks |-> NotCalling]
    /\ tui = TuiStarted
    /\ clock = 0
    /\ fps_buffer = <<>>
    /\ fps_capacity = FpsCapacity
    /\ fps_code = 0
    /\ call = NoCall

\* frames sent over the wire in the decoder runs
WireFrames ==
    {DataFrame(1, "temp", 0, <<v>>) : v \in 1..MaxValue}
      \cup {DataFrame(2, "heading", 1, <<42>>)}

GarbageBytes == {1, 2, 3}

\* zero-free byte strings that are not the encoding of a frame
Garbage ==
    {g \in UNION {[1..n -> GarbageBytes] : n \in 1..MaxGarbage} :
        Deserialize(g \o <<0>>).kind # "ok"}

\* two:    encode(f1) 0 0 encode(f2)
\* resync: g 0 encode(f1)
\* flood:  g 0 encode(f1) encode(f1), for a one-byte g
Scenarios ==
    {[type |-> "two", f1 |-> a, f2 |-> b, g |-> <<>>] : a, b \in WireFrames}
      \cup {[type |-> "resync", f1 |-> a, f2 |-> NoFrame, g |-> g] :
              a \in WireFrames, g \in Garbage}
      \cup {[type |-> "flood", f1 |-> a, f2 |-> a, g |-> g] :
              a \in WireFrames, g \in {h \in Garbage : Len(h) = 1}}

StreamOf(scn) ==
    CASE scn.type = "two"    -> Encode(scn.f1) \o <<0, 0>> \o Encode(scn.f2)
      [] scn.type = "resync" -> scn.g \o <<0>> \o Encode(scn.f1)
      [] scn.type = "flood"  -> scn.g \o <<0>> \o Encode(scn.f1) \o Encode(scn.f2)

(***************************************************************************)
(* The decoder fed by the serial reader; the frame consumer is slow.       *)
(***************************************************************************)
InitDecoder ==
    \E scn \in Scenarios : Started("dump", "none", scn, StreamOf(scn), <<>>)

NextDecoder == DeviceRead \/ DecoderStep

SpecDecoder == InitDecoder /\ [][NextDecoder]_vars


\* every byte of the stream has been read and handled by the decoder
Quiescent == device = <<>> /\ chan[DecoderIn] = <<>>

\* this step is a pass of the decoder over a received slice
DecoderPass == slices' = slices + 1

\* the accumulator right after the slice of this pass was appended
Appended == buffer \o Head(chan[DecoderIn])

\* C1: garbage without a zero byte, one zero byte, then encode(F): once the
\* whole stream is handled, the decoder has emitted exactly [F].
C1_ResyncEmitsFrame ==
    (scenario.type = "resync" /\ Quiescent) => emitted = <<scenario.f1>>

\* C2: encode(F1) 0 0 encode(F2), in one slice or split in any way: once the
\* whole stream is handled, the decoder has emitted exactly [F1, F2].
C2_TwoFramesEmitted ==
    (scenario.type = "two" /\ Quiescent) => emitted = <<scenario.f1, scenario.f2>>

\* C3: a pass that ends Truncated or Corrupt sends no frame and leaves the
\* accumulator as it was after the slice was appended; the decoder goes on.
C3_ErrorKeepsAccumulator ==
    [][(DecoderPass /\ decLast'.outcome \in {"truncated", "corrupt"})
          => /\ buffer' = Appended
             /\ emitted' = emitted
             /\ chan'["frames"] = chan["frames"]
             /\ decPc' = "running"]_vars

C3_Witness ==
    /\ decLast.outcome = "corrupt"
    /\ slices >= 2
    /\ buffer = decLast.appended
    /\ Len(buffer) > 2

\* C4: a pass that ends with an encoding error empties the accumulator, sends
\* no frame and leaves the decoder running; the next slice is appended to the
\* empty accumulator and decoded as if it were the first.
C4_BincodeClears ==
    [][/\ (DecoderPass /\ decLast'.outcome = "bincode")
            => /\ buffer' = <<>>
               /\ emitted' = emitted
               /\ chan'["frames"] = chan["frames"]
               /\ decPc' = "running"
       /\ (DecoderPass /\ decLast.outcome = "bincode")
            => /\ decLast'.appended = Head(chan[DecoderIn])
               /\ decLast'.outcome = Deserialize(Head(chan[DecoderIn])).kind]_vars

\* the frame behind garbage with an unreadable body comes out when a slice
\* ends right at the garbage's delimiter
C4_Witness ==
    /\ scenario.type = "resync"
    /\ emitted = <<scenario.f1>>
    /\ decLast.outcome = "ok"
    /\ slices >= 2

\* C5: a successful pass that reports n bytes read removes the first n bytes
\* and the maximal run of zero bytes after them, nothing else, and sends that
\* one frame; the accumulator is then empty or starts with a non-zero byte.
C5_SuccessDrains ==
    [][(DecoderPass /\ decLast'.outcome = "ok")
          => LET a == Appended
                 n == decLast'.read
             IN  /\ n \in 1..Len(a)
                 /\ \E k \in 0..(Len(a) - n) :
                       /\ \A j \in (n + 1)..(n + k) : a[j] = 0
                       /\ n + k = Len(a) \/ a[n + k + 1] # 0
                       /\ buffer' = SubSeq(a, n + k + 1, Len(a))
                 /\ buffer' = <<>> \/ buffer'[1] # 0
                 /\ emitted' = Append(emitted, decLast'.frame)
                 /\ chan'["frames"] = Append(chan["frames"], decLast'.frame)]_vars

\* the first frame of a two-frame slice is out, the zero run is gone and the
\* second frame is what is left
C5_Witness ==
    /\ scenario.type = "two"
    /\ decLast.outcome = "ok"
    /\ Len(decLast.appended) > decLast.read + 2
    /\ buffer = Encode(scenario.f2)

\* C6: after the decoder has handled a slice the accumulator is within the cap.
C6_AccumulatorCapped == Len(buffer) <= AccumulatorCap


(***************************************************************************)
(* The whole pipeline as main() wires it, for both sub-commands and every  *)
(* raw tap, with the I/O failures of the tap and of dump_data.             *)
(***************************************************************************)
PipeScenario ==
    [type |-> "pipe", f1 |-> DataFrame(1, "temp", 0, <<1>>),
     f2 |-> DataFrame(2, "heading", 1, <<42>>), g |-> <<>>]

\* two frames back to back and two more delimiters
PipeStream == Encode(PipeScenario.f1) \o Encode(PipeScenario.f2) \o <<0, 0>>

\* only the dump sub-command has the --raw option that inserts the tap
InitPipeline ==
    \E cmd \in {"ui", "dump"}, tap \in {"none", "plain", "gzip"} :
        /\ cmd = "ui" => tap = "none"
        /\ Started(cmd, tap, PipeScenario, PipeStream, <<>>)

NextPipeline == DeviceRead \/ TapStep \/ DecoderStep \/ BufferStep \/ DumpStep

SpecPipeline == InitPipeline /\ [][NextPipeline]_vars

TaskPc(t) ==
    CASE t = "reader"    -> readerPc
      [] t = "tap"       -> tapPc
      [] t = "decoder"   -> decPc
      [] t = "to_buffer" -> bufPc
      [] t = "dump_data" -> dumpPc

\* C7: a task whose upstream channel is closed and drained (its recv() has
\* returned None) has terminated.
C7_ClosedUpstreamEndsTask ==
    \A t \in {"tap", "decoder", "to_buffer", "dump_data"} :
        recvNone[t] => TaskPc(t) # "running"

\* C8: a send of the serial reader, the raw tap or the decoder that fails
\* because the receiver is gone ends the task, and an ended task takes no
\* further input.
C8_FailedSendEndsTask ==
    [][/\ \A t \in {"reader", "tap", "decoder"} :
             sendFailed'[t] => TaskPc(t)' = "failed"
       /\ readerPc = "failed" => device' = device
       /\ tapPc = "failed" => /\ tapFile' = tapFile
                              /\ Len(chan'["from_device"]) >= Len(chan["from_device"])
       /\ decPc = "failed" => /\ slices' = slices
                              /\ buffer' = buffer
                              /\ Len(chan'[DecoderIn]) >= Len(chan[DecoderIn])]_vars

\* dump_data has failed and, one after the other, the decoder, the raw tap
\* and the serial reader have run into a dropped receiver
C8_Witness ==
    /\ dumpPc = "failed"
    /\ sendFailed["decoder"] /\ sendFailed["tap"] /\ sendFailed["reader"]


(***************************************************************************)
(* dump_data alone, with any short sequence of frames waiting in its       *)
(* channel.                                                                *)
(***************************************************************************)
DumpFrames ==
    {DataFrame(1, "temp", 0, <<v>>) : v \in 1..MaxValue}
      \cup {DataFrame(1, "acc", 0, <<1, 2, 0>>),
            DataFrame(2, "quat", 0, <<1, 0, 2, 1>>),
            RangesFrame(1, "temp", 0, 2, 0),
            RangesFrame(1, "temp", 0, 1, 1),
            RangesFrame(1, "acc", 0, 3, 0),
            IdentFrame(1, "temp", 0, "Product", <<76, 0, 0>>)}

FrameSeqs == UNION {[1..n -> DumpFrames] : n \in 0..MaxFrames}

QueuedScenario == [type |-> "queued", f1 |-> NoFrame, f2 |-> NoFrame, g |-> <<>>]

InitDump ==
    \E queued \in FrameSeqs : Started("dump", "none", QueuedScenario, <<>>, queued)

NextDump == DumpStep

SpecDump == InitDump /\ [][NextDump]_vars

(***************************************************************************)
(* The sensor buffer on its own: decoder_to_buffer with frames queued on   *)
(* its channel, and the user interface asking for conversions.             *)
(***************************************************************************)
BufferFrames ==
    {DataFrame(1, "temp", q, <<1>>) : q \in 0..MaxSequence}
      \cup {DataFrame(1, "acc", 0, <<1, 2, 0>>),
            DataFrame(0, "clock", 0, <<1>>),
            RangesFrame(1, "temp", 0, 2, 0),
            RangesFrame(1, "temp", 0, 1, 1),
            RangesFrame(1, "acc", 0, 3, 0),
            IdentFrame(1, "temp", 0, "Product", <<32, 76, 0>>),
            IdentFrame(1, "temp", 0, "Product", <<255, 0, 0>>),
            IdentFrame(1, "temp", 0, "Maker", <<32, 83, 0>>),
            IdentFrame(0, "temp", 0, "Product", <<76, 0, 0>>)}

EnqueueSeqs == UNION {[1..n -> BufferFrames] : n \in 0..MaxEnqueue}

InitBuffer ==
    \E queued \in EnqueueSeqs : Started("ui", "none", QueuedScenario, <<>>, queued)

NextBuffer == BufferStep \/ ConvertValues

SpecBuffer == InitBuffer /\ [][NextBuffer]_vars

(***************************************************************************)
(* The sensor buffer under a long stream: frames numbered by the device,   *)
(* of one sensor or of two sensors, the board and a LinearRanges in turn.  *)
(***************************************************************************)
StreamFrame(pattern, k) ==
    IF pattern = "one" THEN DataFrame(1, "temp", k, <<1>>)
    ELSE CASE k % 4 = 1 -> DataFrame(1, "temp", k, <<1>>)
           [] k % 4 = 2 -> DataFrame(1, "acc", k, <<1, 2, 0>>)
           [] k % 4 = 3 -> RangesFrame(1, "temp", k, 2, 0)
           [] OTHER     -> DataFrame(0, "clock", k, <<1>>)

LongStream(pattern) == [k \in 1..MaxStream |-> StreamFrame(pattern, k)]

StreamScenario == [type |-> "stream", f1 |-> NoFrame, f2 |-> NoFrame, g |-> <<>>]

InitRing ==
    \E pattern \in {"one", "mixed"} :
        Started("ui", "none", StreamScenario, <<>>, LongStream(pattern))

NextRing == BufferStep \/ CloneLatest

SpecRing == InitRing /\ [][NextRing]_vars

(***************************************************************************)
(* handle_data_recv on its own: the port delivers the stream in reads of   *)
(* any length, with reads in between that return no data.                  *)
(***************************************************************************)
InitReader == Started("dump", "none", PipeScenario, PipeStream, <<>>)

NextReader == DeviceRead \/ DeviceIdle

SpecReader == InitReader /\ [][NextReader]_vars

(***************************************************************************)
(* The raw tap behind handle_data_recv, its output left on the channel.    *)
(***************************************************************************)
InitTap ==
    \E tap \in {"plain", "gzip"} :
        Started("dump", tap, PipeScenario, PipeStream, <<>>)

NextTap == DeviceRead \/ TapStep

SpecTap == InitTap /\ [][NextTap]_vars

(***************************************************************************)
(* The functions without state, called with arguments of bounded sets, as  *)
(* dump_data calls them for a frame.                                       *)
(***************************************************************************)
InitCalls == Started("dump", "none", QueuedScenario, <<>>, <<>>)

NextCalls == DecodeDeviceTime \/ EncodeDecode \/ EnqueueCall

SpecCalls == InitCalls /\ [][NextCalls]_vars

(***************************************************************************)
(* An FpsCounter on its own: calls of increment at times that never fall.  *)
(***************************************************************************)
InitFps == Started("ui", "none", QueuedScenario, <<>>, <<>>)

NextFps == Increment

SpecFps == InitFps /\ [][NextFps]_vars

(***************************************************************************)
(* dump_data alone while the wall clock moves on.                          *)
(***************************************************************************)
HostFrames ==
    {DataFrame(1, "temp", 0, <<1>>), DataFrame(1, "acc", 0, <<1, 2, 0>>),
     RangesFrame(1, "temp", 0, 2, 0)}

InitHostTime ==
    \E fs \in UNION {[1..n -> HostFrames] : n \in 0..MaxRows} :
        Started("dump", "none", QueuedScenario, <<>>, fs)

NextHostTime == DumpStep \/ Tick

SpecHostTime == InitHostTime /\ [][NextHostTime]_vars

(***************************************************************************)
(* The tasks of the user interface at the locks of its SensorDataBuffer.   *)
(***************************************************************************)
InitLocks == Started("ui", "none", QueuedScenario, <<>>, <<>>)

NextLocks == LockStep

SpecLocks == InitLocks /\ [][NextLocks]_vars

(***************************************************************************)
(* Tui::stop, called at any time after start; a stop() that was called     *)
(* goes on polling.                                                        *)
(***************************************************************************)
InitStop == Started("ui", "none", QueuedScenario, <<>>, <<>>)

NextStop == TuiStep

SpecStop == InitStop /\ [][NextStop]_vars /\ WF_vars(TuiPoll /\ TuiStep)

(***************************************************************************)
(* Either consumer of the frames channel, as main() starts it for the      *)
(* sub-command, with the same frames queued.                               *)
(***************************************************************************)
InitConsumers ==
    \E cmd \in {"ui", "dump"}, queued \in EnqueueSeqs :
        Started(cmd, "none", QueuedScenario, <<>>, queued)

NextConsumers == BufferStep \/ ConvertValues \/ DumpStep

SpecConsumers == InitConsumers /\ [][NextConsumers]_vars

\* the frames of sensor id among fs, in order
FramesOf(id, fs) == SelectSeq(fs, LAMBDA f : SensorIdOf(f) = id)

\* the columns of a data row that do not depend on a calibration
RawColumns(f) ==
    <<Hex2(f.tag), NumComponents(f.kind), value_type_code(ValueTypeOf(f.kind))>> \o
    ( CASE f.kind \in DataKinds -> f.vals
        [] f.kind = "lranges"  -> <<f.info.scale, f.info.offset>>
        [] f.kind = "ident"    -> <<ident_code(f.code), ident_value(f.text)>> )

IsPrefix(a, b) == Len(a) <= Len(b) /\ SubSeq(b, 1, Len(a)) = a

\* the rows a writer holds start with the rows of the frames fs of its sensor
HoldsRowsOf(rows, fs) ==
    /\ Len(rows) >= 1 + Len(fs)
    /\ rows[1] = create_header_row(fs[1])
    /\ \A i \in 1..Len(fs) : IsPrefix(RawColumns(fs[i]), rows[i + 1])

\* C9: while dump_data runs, there is a writer for exactly the SensorIds of
\* the frames processed so far, and each holds the variant's header row once
\* and first, then one data row per processed frame of that SensorId, in the
\* order of arrival.  A pass that fails leaves a prefix of that content.
C9_HeaderThenRowsInOrder ==
    /\ dumpPc = "running" =>
          /\ DOMAIN files = {SensorIdOf(processed[i]) : i \in DOMAIN processed}
          /\ \A id \in DOMAIN files :
                LET fs == FramesOf(id, processed)
                IN  /\ Len(files[id]) = 1 + Len(fs)
                    /\ HoldsRowsOf(files[id], fs)
                    /\ \A i \in 2..Len(files[id]) : files[id][i][1] # "host_time"
    /\ dumpPc = "failed" =>
          \A id \in DOMAIN files :
              LET done == FramesOf(id, processed)
                  all  == FramesOf(id, Append(processed, dumpLast.frame))
              IN  /\ Len(files[id]) \in Len(done)..(1 + Len(all))
                  /\ \A i \in 2..Len(files[id]) :
                        /\ files[id][i][1] # "host_time"
                        /\ IsPrefix(RawColumns(all[i - 1]), files[id][i])
                  /\ files[id] # <<>> => files[id][1] = create_header_row(all[1])

\* a writer that was reused twice, next to a second writer
C9_Witness ==
    /\ dumpPc = "running"
    /\ \E id \in DOMAIN files :
          /\ Len(files[id]) = 4
          /\ files[id][2] # files[id][3]
          /\ DOMAIN files # {id}

\* the LinearRanges received last for sensor id among fs, if any
RECURSIVE LastRanges(_, _)
LastRanges(fs, id) ==
    IF fs = <<>> THEN None
    ELSE LET f == fs[Len(fs)]
         IN  IF f.kind = "lranges" /\ Target(f) = id THEN Some(f.info)
             ELSE LastRanges(SubSeq(fs, 1, Len(fs) - 1), id)

ConvertedKinds == {"acc", "mag", "gyro", "euler", "temp", "heading", "quat"}

\* this step hands a data row to the writer of sensor id
RowWritten(id) ==
    /\ id \in DOMAIN files'
    /\ Len(files'[id]) >= 2
    /\ id \in DOMAIN files => Len(files'[id]) > Len(files[id])

\* C10: the data row written for a vector or scalar frame carries the values
\* converted with the LinearRanges received last for the frame's SensorId,
\* or one empty column per component when there was none; the rows written
\* before stay as they are.
C10_RowUsesLatestRanges ==
    [][chan'["frames"] # chan["frames"]
          => LET f   == Head(chan["frames"])
                 id  == SensorIdOf(f)
                 row == files'[id][Len(files'[id])]
                 n   == NumComponents(f.kind)
                 lr  == LastRanges(processed, id)
             IN  /\ (RowWritten(id) /\ f.kind \in ConvertedKinds)
                      => /\ Len(row) = 3 + 2 * n
                         /\ \A i \in 1..n :
                               row[3 + n + i] = IF lr.some
                                                THEN <<Convert(lr.v, f.vals[i])>>
                                                ELSE <<>>
                 /\ \A t \in DOMAIN files :
                       t \in DOMAIN files' /\ IsPrefix(files[t], files'[t])]_vars

\* one sensor's file holds a row without and then a row with converted
\* values, and a LinearRanges of another sensor came before the first
C10_Witness ==
    /\ dumpPc = "running"
    /\ Len(processed) >= 4
    /\ processed[1].kind = "lranges"
    /\ \E id \in DOMAIN files :
          /\ Target(processed[1]) # id
          /\ id[2] = TypeId("temp")
          /\ Len(files[id]) = 3
          /\ Len(files[id][2]) = 5 /\ files[id][2][5] = <<>>
          /\ Len(files[id][3]) = 5 /\ files[id][3][5] # <<>>

\* the data (non-meta) frames among fs, in order
DataFramesOf(fs) == SelectSeq(fs, LAMBDA f : f.kind \in DataKinds)

\* a writer whose SensorId names a sensor variant, not a meta variant
HoldsDataRows(id) == id[2] \in {TypeId(k) : k \in DataKinds}

\* C11: while dump_data runs without error, the file of a sensor variant's
\* SensorId holds as many data rows as data frames of that SensorId were
\* processed, and a pass over an Identification or LinearRanges frame leaves
\* every file of a sensor variant as it was.
C11_RowsCountDataFrames ==
    /\ [](dumpPc = "running" =>
             \A id \in DOMAIN files :
                 HoldsDataRows(id) =>
                     Len(files[id]) - 1 = Len(FramesOf(id, DataFramesOf(processed))))
    /\ [][(chan'["frames"] # chan["frames"]
             /\ Head(chan["frames"]).kind \in MetaKinds)
            => \A id \in DOMAIN files' :
                   HoldsDataRows(id) => id \in DOMAIN files /\ files'[id] = files[id]]_vars

\* two rows in the file of a sensor whose LinearRanges and Identification
\* frames were processed as well
C11_Witness ==
    /\ dumpPc = "running"
    /\ \E id \in DOMAIN files :
          /\ HoldsDataRows(id)
          /\ Len(files[id]) = 3
          /\ \E i, j \in DOMAIN processed :
                /\ processed[i].kind = "lranges" /\ Target(processed[i]) = id
                /\ processed[j].kind = "ident" /\ Target(processed[j]) = id

\* C13: a pass of dump_data whose write, flush or file creation fails ends
\* dump_data with the error, and from then on no frame is taken from the
\* channel and nothing is written.
C13_IoErrorEndsDump ==
    [][/\ (chan'["frames"] # chan["frames"] /\ dumpLast'.fail # "none")
            => dumpPc' = "failed"
       /\ dumpPc = "failed"
            => /\ dumpPc' = "failed"
               /\ UNCHANGED <<files, ranges, processed, dumpLast>>
               /\ chan'["frames"] = chan["frames"]]_vars

\* the write to an existing writer failed while frames were still queued
C13_Witness ==
    /\ dumpPc = "failed"
    /\ dumpLast.fail \in {"write", "flush"}
    /\ processed # <<>>
    /\ dumpLast.target \in {SensorIdOf(processed[i]) : i \in DOMAIN processed}
    /\ chan["frames"] # <<>>

RECURSIVE IsSubsequence(_, _)
IsSubsequence(a, b) ==
    IF a = <<>> THEN TRUE
    ELSE IF b = <<>> THEN FALSE
    ELSE IF Head(a) = Head(b) THEN IsSubsequence(Tail(a), Tail(b))
    ELSE IsSubsequence(a, Tail(b))

StoredFramesOf(id, fs) ==
    SelectSeq(fs, LAMBDA f : ~IsMeta(f) /\ Target(f) = id)

\* the positions of fs from the second on whose sequence number is neither
\* that of the frame before nor its successor
SkipPositions(fs) ==
    {i \in 2..Len(fs) : fs[i].seq # fs[i - 1].seq + 1 /\ fs[i].seq # fs[i - 1].seq}

\* C15: get_skipped_by_sensor of a sensor is the number of its data frames,
\* from the second on, whose sequence number is neither that of the frame
\* before nor its successor; the first frame of a sensor is never a skip.
C15_SkipsCountGaps ==
    \A id \in get_sensors :
        get_skipped_by_sensor(id) = Cardinality(SkipPositions(StoredFramesOf(id, enqueued)))

\* the buffer of sensor id, as it is or as its first frame will find it
EntryOf(map, id) == IF id \in DOMAIN map THEN map[id] ELSE InnerDefault

\* the part of a sensor's buffer that belongs to its data frames
RingOf(b) == <<b.data, b.len, b.sequence, b.num_skipped, b.marks>>

\* this step enqueues the frame at the head of the channel
Enqueues == bufPc = "running" /\ chan'["frames"] # chan["frames"]

\* C16: enqueueing a LinearRanges or Identification frame about sensor S
\* leaves the ring of S, its length, last sequence number, skip counter and
\* rate estimator as they were, and get_latest_by_sensor(S) returns what it
\* returned before; a LinearRanges changes the calibration only, an
\* Identification the maker or the product only.
C16_MetaKeepsRing ==
    [][(Enqueues /\ IsMeta(Head(chan["frames"])) /\ ~IsBoard(Target(Head(chan["frames"]))))
          => LET f      == Head(chan["frames"])
                 id     == Target(f)
                 before == EntryOf(by_sensor, id)
                 after  == by_sensor'[id]
             IN  /\ RingOf(after) = RingOf(before)
                 /\ id \in DOMAIN by_sensor'
                 /\ get_latest(after) = get_latest_by_sensor(id)
                 /\ f.kind = "lranges" =>
                       /\ after.calibration = Some(f.info)
                       /\ after.maker = before.maker /\ after.product = before.product
                 /\ f.kind = "ident" =>
                       /\ after.calibration = before.calibration
                       /\ f.code # "Maker" => after.maker = before.maker
                       /\ f.code # "Product" => after.product = before.product
                 /\ \A other \in DOMAIN by_sensor \ {id} :
                       by_sensor'[other] = by_sensor[other]]_vars

\* a sensor with a frame in its ring, a calibration and a product name, whose
\* last frame enqueued was an Identification
C16_Witness ==
    /\ Len(enqueued) = 3
    /\ enqueued[3].kind = "ident"
    /\ Target(enqueued[3]) \in DOMAIN by_sensor
    /\ LET b == by_sensor[Target(enqueued[3])]
       IN  /\ b.len = 1 /\ b.data = <<enqueued[1]>>
           /\ b.calibration.some
           /\ b.product # <<>>
           /\ get_latest_by_sensor(Target(enqueued[3])) = Some(enqueued[1])

\* C17: no sensor of the per-sensor map has tag 0: enqueueing a frame with
\* sensor tag 0, data or meta, leaves get_sensors() and num_sensors() as they
\* were, while a pass of dump_data over such a frame writes its row.
C17_BoardIsNoSensor ==
    /\ [](\A id \in get_sensors : id[1] # 0)
    /\ [][(Enqueues /\ Head(chan["frames"]).tag = 0)
            => /\ get_sensors' = get_sensors
               /\ num_sensors' = num_sensors
               /\ by_sensor' = by_sensor]_vars
    /\ [][(dumpPc = "running" /\ chan'["frames"] # chan["frames"]
             /\ Head(chan["frames"]).tag = 0 /\ dumpLast'.fail = "none")
            => LET id == SensorIdOf(Head(chan["frames"]))
               IN  /\ RowWritten(id)
                   /\ IsPrefix(RawColumns(Head(chan["frames"])),
                               files'[id][Len(files'[id])])]_vars

\* a data and a meta frame of the board and a frame of a sensor were
\* enqueued: all three are in the buffer of all frames, one sensor is known
C17_Witness ==
    /\ Len(enqueued) = 3
    /\ enqueued[1].tag = 0 /\ ~IsMeta(enqueued[1])
    /\ enqueued[2].tag = 0 /\ IsMeta(enqueued[2])
    /\ enqueued[3].tag # 0
    /\ inner.len = 3
    /\ num_sensors = 1

\* the n last frames of fs, or all of them if there are fewer, newest first
Newest(fs, n) ==
    [i \in 1..(IF n < Len(fs) THEN n ELSE Len(fs)) |-> fs[Len(fs) - i + 1]]

\* C18: the buffer of all frames holds the 100 frames enqueued last, or all
\* of them while there are fewer, meta frames and frames of the board
\* included, and the buffer of a sensor holds the 100 data frames of that
\* sensor enqueued last, both newest first; len() is the length of the ring
\* of all frames; clone_latest(count, target) appends the min(count, len())
\* newest frames to target, newest first, and leaves the rings as they were.
C18_RingsHoldNewest ==
    /\ [](/\ inner.data = Newest(enqueued, 100)
          /\ len = Len(inner.data)
          /\ \A id \in DOMAIN by_sensor :
                by_sensor[id].data = Newest(StoredFramesOf(id, enqueued), 100))
    /\ [][(query' # query /\ query'.op = "clone_latest")
            => /\ query'.out = query'.target \o Newest(enqueued, Min({query'.count, len}))
               /\ query'.ret = Min({query'.count, len})
               /\ UNCHANGED <<inner, by_sensor, enqueued>>]_vars

\* more than 100 frames of one sensor were enqueued, and clone_latest was
\* asked for 101 frames on a target that held a frame already
C18_Witness ==
    /\ Len(enqueued) > 100
    /\ len = 100
    /\ \E id \in get_sensors :
          /\ by_sensor[id].len = 100
          /\ Len(StoredFramesOf(id, enqueued)) > 100
    /\ query # NoQuery
    /\ query.count = 101
    /\ query.target # <<>>
    /\ query.ret = 100
    /\ Len(query.out) = 101

\* C19: convert_values(S, values) with a calibration stored for S replaces
\* every element by calibration.convert(element) and returns true; for an
\* unknown S or one without calibration it leaves the values and returns
\* false; the buffer is as it was in both cases.
C19_ConvertValues ==
    [][(query' # query /\ query'.op = "convert_values")
          => LET id     == query'.id
                 values == query'.values
             IN  /\ (id \in get_sensors /\ by_sensor[id].calibration.some)
                       => /\ query'.ret = TRUE
                          /\ Len(query'.out) = Len(values)
                          /\ \A i \in DOMAIN values :
                                query'.out[i] = Convert(by_sensor[id].calibration.v, values[i])
                 /\ (id \notin get_sensors \/ ~by_sensor[id].calibration.some)
                       => /\ query'.ret = FALSE
                          /\ query'.out = values
                 /\ UNCHANGED <<inner, by_sensor, enqueued, chan>>]_vars

\* three values were converted for a sensor that has a calibration and a
\* frame in its ring
C19_Witness ==
    /\ query # NoQuery
    /\ query.op = "convert_values"
    /\ query.id \in get_sensors
    /\ by_sensor[query.id].calibration.some
    /\ by_sensor[query.id].len > 0
    /\ Len(query.values) = 3
    /\ query.ret
    /\ query.out # query.values
    /\ query.out = [i \in 1..3 |-> Convert(by_sensor[query.id].calibration.v, query.values[i])]

\* C20: the state of a sensor never regresses: its entry stays, a calibration
\* that is set stays set, a maker or product name that is not empty is not
\* emptied by a later frame, and enqueueing the Identification or
\* LinearRanges frame enqueued just before once more changes nothing in the
\* per-sensor map.
C20_NeverRegresses ==
    [][/\ \A id \in DOMAIN by_sensor :
             /\ id \in DOMAIN by_sensor'
             /\ by_sensor[id].calibration.some => by_sensor'[id].calibration.some
             /\ by_sensor[id].maker # <<>> => by_sensor'[id].maker # <<>>
             /\ by_sensor[id].product # <<>> => by_sensor'[id].product # <<>>
       /\ (Enqueues /\ IsMeta(Head(chan["frames"])) /\ enqueued # <<>>
              /\ enqueued[Len(enqueued)] = Head(chan["frames"]))
            => by_sensor' = by_sensor]_vars

\* a text without the zero bytes and the whitespace at its end
RECURSIVE WithoutTrailing(_)
WithoutTrailing(text) ==
    IF text # <<>> /\ text[Len(text)] \in Whitespace \cup {0}
    THEN WithoutTrailing(SubSeq(text, 1, Len(text) - 1))
    ELSE text

\* C21: enqueueing an Identification about sensor S (tag not 0) whose value
\* is UTF-8: with code Product get_sensor_name(S) is afterwards the value
\* without its trailing zero bytes and whitespace and the maker is as before,
\* with code Maker the maker is that text and the product is as before, with
\* code Generic or Revision both strings are as before.
C21_NameIsTrimmedValue ==
    [][(Enqueues /\ Head(chan["frames"]).kind = "ident"
          /\ ~IsBoard(Target(Head(chan["frames"])))
          /\ IsUtf8(Head(chan["frames"]).text))
          => LET f      == Head(chan["frames"])
                 id     == Target(f)
                 before == EntryOf(by_sensor, id)
                 after  == by_sensor'[id]
             IN  /\ f.code = "Product" =>
                       /\ after.product = WithoutTrailing(f.text)
                       /\ after.maker = before.maker
                 /\ f.code = "Maker" =>
                       /\ after.maker = WithoutTrailing(f.text)
                       /\ after.product = before.product
                 /\ f.code \in {"Generic", "Revision"} =>
                       /\ after.maker = before.maker
                       /\ after.product = before.product]_vars

\* C22: the row dump_data writes for an Identification frame has the name of
\* the code in its code column, and in its value column the value decoded as
\* UTF-8 without its trailing whitespace and zero padding, or the empty
\* string when the value is not UTF-8.
C22_IdentRowValue ==
    [][(dumpPc = "running" /\ chan'["frames"] # chan["frames"]
          /\ Head(chan["frames"]).kind = "ident"
          /\ RowWritten(SensorIdOf(Head(chan["frames"]))))
          => LET f   == Head(chan["frames"])
                 id  == SensorIdOf(f)
                 row == files'[id][Len(files'[id])]
             IN  /\ Len(row) = 5
                 /\ row[4] \in {"generic", "maker", "product", "revision"}
                 /\ row[4] = ident_code(f.code)
                 /\ row[5] = IF IsUtf8(f.text) THEN WithoutTrailing(f.text)
                             ELSE <<>>]_vars

\* C23: the device_time of a frame is the sum of system_secs,
\* system_millis/1000 and system_nanos/1000000, each term left out when its
\* own field holds the maximum of its type, whatever the other fields hold.
C23_DeviceTimeTerms ==
    call.fn = "decode_device_time" =>
        call.out = (IF call.system_secs # U32Max THEN call.system_secs * 1000000 ELSE 0)
                     + (IF call.system_millis # U16Max THEN call.system_millis * 1000 ELSE 0)
                     + (IF call.system_nanos # U16Max THEN call.system_nanos ELSE 0)

\* the concatenation of a sequence of slices
RECURSIVE Concat(_)
Concat(ss) == IF ss = <<>> THEN <<>> ELSE Head(ss) \o Concat(Tail(ss))

\* C24: handle_data_recv sends one slice for each read of n > 0 bytes, with
\* those n bytes, in the order read; a read of 0 bytes or a TimedOut error
\* sends nothing, and handle_data_recv keeps running.
C24_OneSlicePerRead ==
    /\ [](Concat(chan["from_device"]) \o device = PipeStream
          /\ \A i \in DOMAIN chan["from_device"] : chan["from_device"][i] # <<>>)
    /\ [][device' # device
            => /\ Len(chan'["from_device"]) = Len(chan["from_device"]) + 1
               /\ \E n \in 1..Len(device) :
                     /\ chan'["from_device"] = Append(chan["from_device"], SubSeq(device, 1, n))
                     /\ device' = SubSeq(device, n + 1, Len(device))
               /\ readerPc' = "running"]_vars
    /\ [][(idleReads' # idleReads /\ idleReads' \ idleReads \subseteq {"empty", "timeout"})
            => /\ chan' = chan /\ device' = device
               /\ readerPc' = "running"]_vars

\* two slices of different lengths were sent, with an empty read and a
\* timeout among the reads, and the reader is running
C24_Witness ==
    /\ Len(chan["from_device"]) = 2
    /\ Len(chan["from_device"][1]) # Len(chan["from_device"][2])
    /\ {"empty", "timeout"} \subseteq idleReads
    /\ readerPc = "running"
    /\ device # <<>>

\* C25: after a port read has failed with an I/O error other than TimedOut,
\* handle_data_recv has returned with the failure.
C25_ReadErrorEndsReader ==
    "error" \in idleReads => readerPc = "failed"

\* C26: the raw tap forwards the slices it receives in order and as they
\* are, and hands their bytes to its writer; what it has forwarded is at any
\* time a prefix of what the writer was handed, a slice being written before
\* it is forwarded.
C26_TapForwardsWhatItWrites ==
    /\ [](/\ IsPrefix(Concat(chan["raw"]), tapFile)
          /\ tapPc = "running" =>
                /\ tapFile = Concat(chan["raw"])
                /\ tapFile \o Concat(chan["from_device"]) \o device = PipeStream)
    /\ [][chan'["raw"] # chan["raw"]
            => /\ chan["from_device"] # <<>>
               /\ chan'["raw"] = Append(chan["raw"], Head(chan["from_device"]))
               /\ chan'["from_device"] = Tail(chan["from_device"])
               /\ tapFile' = tapFile \o Head(chan["from_device"])]_vars

\* the tap has written and forwarded two slices and another one waits
C26_Witness ==
    /\ tapPc = "running"
    /\ Len(chan["raw"]) = 2
    /\ chan["raw"][1] # chan["raw"][2]
    /\ tapFile = chan["raw"][1] \o chan["raw"][2]
    /\ chan["from_device"] # <<>>

\* C27: a raw tap that has returned because writing a slice failed has
\* flushed its writer before, in plain and in gzip mode, and has not
\* forwarded that slice.
C27_WriteErrorFlushes ==
    (tapPc = "failed" /\ ~sendFailed["tap"]) =>
        /\ tapFlushed
        /\ IsPrefix(Concat(chan["raw"]), tapFile)

(***************************************************************************)
(* FpsCounter                                                              *)
(***************************************************************************)
\* the mean of the distances between the neighbours of buf
RECURSIVE SumOfDistances(_)
SumOfDistances(buf) ==
    IF Len(buf) < 2 THEN 0
    ELSE (IF buf[1] >= buf[2] THEN buf[1] - buf[2] ELSE buf[2] - buf[1])
         + SumOfDistances(Tail(buf))

MeanDistance(buf) == SumOfDistances(buf) \div (Len(buf) - 1)

AllEqual(buf) == \A i, j \in 1..Len(buf) : buf[i] = buf[j]

\* C28: after k calls of increment at times that never fall, fps() is zero
\* when k < 2 and otherwise the mean of the differences between consecutive
\* retained timestamps, which is greater than zero whenever the retained
\* timestamps are not all equal.
C28_FpsIsMeanDistance ==
    IF Len(fps_buffer) < 2
    THEN fps = DurationOf(0)
    ELSE /\ fps = DurationOf(MeanDistance(fps_buffer))
         /\ ~AllEqual(fps_buffer) => fps # DurationOf(0)

\* C29: the timestamp ring never holds more than its configured capacity of
\* 100 entries, whatever the number of calls of increment.
C29_RingWithinCapacity == Len(fps_buffer) <= FpsCapacity

\* C30: for a Duration whose whole seconds fit in the upper half of the code,
\* decode(encode(d)) = d, the upper half holding the whole seconds and the
\* lower half the nanoseconds below a second; for a longer one the seconds
\* saturate at the largest value of the half and the nanoseconds are kept.
C30_EncodeDecode ==
    call.fn = "encode" =>
        IF call.duration.secs <= CodeHalf - 1
        THEN /\ call.decoded = call.duration
             /\ call.code \div CodeHalf = call.duration.secs
             /\ call.code % CodeHalf = call.duration.nanos
        ELSE call.decoded = [secs |-> CodeHalf - 1, nanos |-> call.duration.nanos]

C30_Witness ==
    /\ call.fn = "encode"
    /\ call.duration = [secs |-> CodeHalf + MaxSecs, nanos |-> NanosPerSec - 1]
    /\ call.decoded = [secs |-> CodeHalf - 1, nanos |-> NanosPerSec - 1]

(***************************************************************************)
(* The locks of SensorDataBuffer                                           *)
(***************************************************************************)
\* the enqueueing task is in the per-sensor part of enqueue: it waits for
\* the write lock of the map or holds it
InSensorPart ==
    \/ Holds("enqueuer", "by_sensor")
    \/ (Wanted("enqueuer").some /\ Wanted("enqueuer").v.lock = "by_sensor")

\* C31: a global query is never blocked by the per-sensor part of an
\* enqueue: the enqueueing task does not hold the lock of the global ring
\* while it holds or waits for the write lock of the per-sensor map.
C31_GlobalLockFreeInSensorPart == InSensorPart => ~Holds("enqueuer", "inner")

\* task t can take a step
CanStep(t) ==
    \/ locks[t].op = "none"
    \/ ~Wanted(t).some
    \/ Available(Wanted(t).v, t)

\* the tasks that hold a guard which keeps task t waiting
BlockedBy(t) ==
    IF CanStep(t) THEN {}
    ELSE {u \in LockTasks \ {t} :
            \E h \in HeldBy(u) :
                /\ h.lock = Wanted(t).v.lock
                /\ ~(h.mode = "read" /\ Wanted(t).v.mode = "read")}

\* C36: with one task calling enqueue and the others calling queries, no
\* deadlock is reachable: no set of tasks wait for each other, enqueue takes
\* the global lock and then the lock of the map, and every query holds at
\* most one of the two locks.
C36_NoDeadlock ==
    /\ \A S \in SUBSET LockTasks \ {{}} : \E t \in S : BlockedBy(t) \cap S = {}
    /\ \A t \in LockTasks \ {"enqueuer"} : Cardinality(HeldBy(t)) <= 1
    /\ Holds("enqueuer", "by_sensor") => Holds("enqueuer", "inner")

\* the enqueueing task waits for the map while a query reads it, and the
\* other query waits for the global lock
C36_Witness ==
    /\ locks["enqueuer"] = [op |-> "enqueue", held |-> 1]
    /\ ~CanStep("enqueuer")
    /\ \E t \in LockTasks : locks[t].op \in GlobalQueries /\ ~CanStep(t)

(***************************************************************************)
(* Tui::stop                                                               *)
(***************************************************************************)
\* C34: Tui::stop always returns: it cancels the event task, polls it once
\* per millisecond, calls abort on it once more than 50 polls have passed
\* without the task finishing, and gives up after at most 101 polls even if
\* the task never finishes.
C34_StopReturns ==
    /\ [](/\ tui.pc # "started" => tui.cancelled
          /\ tui.counter <= 101
          /\ (tui.aborts > 0) <=> (tui.counter > 50)
          /\ tui.gave_up <=> (tui.counter = 101)
          /\ tui.pc = "returned" => (tui.finished \/ tui.gave_up))
    /\ (tui.pc = "polling") ~> (tui.pc = "returned")

\* stop() has given up on a task that never finished
C34_Witness ==
    /\ tui.pc = "returned"
    /\ ~tui.finished
    /\ tui.counter = 101
    /\ tui.aborts = 51

(***************************************************************************)
(* Sequence numbers at the wrap                                            *)
(***************************************************************************)
\* C32: when a sensor's data frame with sensor_sequence 0 directly follows
\* one with the largest sensor_sequence, enqueue completes normally and
\* counts no skip: previous + 1 is computed modulo the width.
C32_WrapIsNoSkip ==
    (call.fn = "enqueue" /\ call.previous = U32Max /\ call.sequence = 0) =>
        /\ ~call.panicked
        /\ call.skipped = 0
        /\ call.stored = 1

(***************************************************************************)
(* The sensors a SensorDataBuffer knows                                    *)
(***************************************************************************)
\* the SensorIds other than the board's that the frames of fs refer to
SensorsOf(fs) == {Target(fs[i]) : i \in {j \in 1..Len(fs) : Target(fs[j])[1] # 0}}

\* the data frames among fs that belong to the sensor id
DataOf(id, fs) == SelectSeq(fs, LAMBDA f : Target(f) = id /\ ~IsMeta(f))

\* C33: after any sequence of enqueue calls, num_sensors() is the number of
\* distinct SensorIds with tag # 0 that the enqueued frames refer to, and
\* get_sensors() lists exactly those; the entry is created by the first
\* frame for that SensorId, also by a meta frame, and then
\* get_latest_by_sensor returns none until a data frame of it arrives.
C33_SensorsAreTargets ==
    /\ get_sensors = SensorsOf(enqueued)
    /\ num_sensors = Cardinality(SensorsOf(enqueued))
    /\ \A id \in SensorsOf(enqueued) :
          get_latest_by_sensor(id).some <=> DataOf(id, enqueued) # <<>>

\* a sensor known from meta frames only, next to one with data
C33_Witness ==
    /\ num_sensors = 2
    /\ \E id \in get_sensors : ~get_latest_by_sensor(id).some
    /\ \E id \in get_sensors : get_latest_by_sensor(id).some
    /\ \E i \in 1..Len(enqueued) : Target(enqueued[i])[1] = 0

(***************************************************************************)
(* One deserialization attempt per slice                                   *)
(***************************************************************************)
\* C35: the decoder makes exactly one deserialization attempt per inbound
\* slice: at every point the number of frames it has sent is at most the
\* number of slices it has received, a frame is sent only in the pass over
\* a received slice and one at most, and a complete frame left in the
\* accumulator is decoded only when a later slice arrives.
C35_OneAttemptPerSlice ==
    /\ [](Len(emitted) <= slices)
    /\ [][/\ Len(emitted') <= Len(emitted) + 1
          /\ emitted' # emitted => DecoderPass]_vars

\* the whole stream is handled and a complete frame waits in the accumulator
C35_Witness ==
    /\ scenario.type = "two"
    /\ Quiescent
    /\ emitted = <<scenario.f1>>
    /\ Deserialize(buffer).kind = "ok"
    /\ Deserialize(buffer).frame = scenario.f2

(***************************************************************************)
(* The files and the host_time of dump_data                                *)
(***************************************************************************)
\* C37: two different SensorIds processed by dump_data never map to the
\* same file name, so creating the file for a new SensorId never truncates
\* a file that an existing writer is still appending to.
C37_FileNamesDiffer ==
    /\ \A i, j \in 1..Len(created) :
          i # j => /\ created[i].name # created[j].name
                   /\ created[i].target # created[j].target
    /\ DOMAIN files = {created[i].target : i \in 1..Len(created)}

\* the files of two sensors with the same tag and value type
C37_Witness ==
    /\ Len(created) >= 3
    /\ \E i, j \in 1..Len(created) :
          /\ i # j
          /\ created[i].name[1] = created[j].name[1]
          /\ created[i].name[3] = created[j].name[3]

\* C38: the host_time of a row is the wall-clock time dump_data sampled
\* before it started waiting for that frame: it is not later than the
\* moment the frame was received, not earlier than the moment the frame
\* before it was received, and it never falls from row to row.
C38_HostTimeBeforeReceipt ==
    \A i \in 1..Len(stamps) :
        /\ stamps[i].host_time <= stamps[i].received
        /\ i > 1 => /\ stamps[i].host_time >= stamps[i - 1].received
                     /\ stamps[i].host_time >= stamps[i - 1].host_time

\* a frame received later than its host_time, after an earlier row
C38_Witness ==
    /\ Len(stamps) >= 2
    /\ stamps[2].host_time > stamps[1].host_time
    /\ stamps[2].host_time < stamps[2].received
    /\ dumpPc = "running"

(***************************************************************************)
(* A frame and the other sensors                                           *)
(***************************************************************************)
\* C39: enqueueing a frame whose target is SensorId A changes no part of the
\* per-sensor state (ring, last sequence, skip count, calibration, maker and
\* product names) of any other SensorId B; an Identification or LinearRanges
\* frame changes only the state of the SensorId it targets.
C39_OtherSensorsUntouched ==
    [][enqueued' # enqueued =>
          LET frame == enqueued'[Len(enqueued')]
          IN  /\ DOMAIN by_sensor \subseteq DOMAIN by_sensor'
              /\ DOMAIN by_sensor' \subseteq DOMAIN by_sensor \cup {Target(frame)}
              /\ \A id \in DOMAIN by_sensor :
                    id # Target(frame) => by_sensor'[id] = by_sensor[id]]_vars

\* a LinearRanges frame has reached one of two sensors with the same tag
C39_Witness ==
    /\ enqueued # <<>>
    /\ enqueued[Len(enqueued)].kind = "lranges"
    /\ \E a, b \in DOMAIN by_sensor :
          /\ a # b /\ a[1] = b[1]
          /\ a = Target(enqueued[Len(enqueued)])
          /\ by_sensor[a].calibration.some
          /\ ~by_sensor[b].calibration.some
          /\ by_sensor[b].data # <<>>

====
